---- MODULE Spec2Model ----
(***************************************************************************)
(* docdb: a schemaless document store with an inverted index of            *)
(* path=value fingerprints, a small query language and an HTTP API.        *)
(*                                                                         *)
(* Strings are sequences of runes.  A rune is written as a TLA+ string:    *)
(* an ASCII rune as the character itself, the two-byte rune U+00E9 as      *)
(* "U+E9".  Bytes are written the same way ("0xC3", "0xA9" for the two     *)
(* bytes of U+00E9).                                                       *)
(***************************************************************************)
EXTENDS Integers, Sequences, FiniteSets, TLC

(***************************************************************************)
(* Runes, bytes and strings                                                *)
(***************************************************************************)

\* The runes of the model in code-point order (the order Go compares strings in).
CodePoints ==
  << " ", "\"", ",", ".", "0", "1", "2", "3", "4", "5", "6", "7", "8", "9",
     ":", "<", "=", ">", "K", "[", "]", "a", "b", "c", "e", "g", "i", "k",
     "l", "m", "n", "p", "r", "s", "t", "u", "v", "U+E9" >>

DigitRunes == << "0", "1", "2", "3", "4", "5", "6", "7", "8", "9" >>

IsDigit(c) == \E i \in 1..Len(DigitRunes) : DigitRunes[i] = c

IsLetter(c) ==
  c \in { "K", "a", "b", "c", "e", "g", "i", "k", "l", "m", "n", "p", "r", "s",
          "t", "u", "v", "U+E9" }

IsSpace(c) == c = " "

DigitVal(c) == (CHOOSE i \in 1..Len(DigitRunes) : DigitRunes[i] = c) - 1

Rank(c) == CHOOSE i \in 1..Len(CodePoints) : CodePoints[i] = c

\* s < t in Go's string order
RECURSIVE StrLess(_, _)
StrLess(s, t) ==
  IF t = << >> THEN FALSE
  ELSE IF s = << >> THEN TRUE
  ELSE IF Head(s) # Head(t) THEN Rank(Head(s)) < Rank(Head(t))
  ELSE StrLess(Tail(s), Tail(t))

\* the UTF-8 bytes of a rune
Utf8(c) == IF c = "U+E9" THEN << "0xC3", "0xA9" >> ELSE << c >>

\* []byte(q) / the bytes indexed by q[i]
RECURSIVE Bytes(_)
Bytes(s) == IF s = << >> THEN << >> ELSE Utf8(Head(s)) \o Bytes(Tail(s))

\* string(b) of a single byte b: the rune whose code point is b
ByteToRune(b) ==
  IF b = "0xC3" THEN "U+C3" ELSE IF b = "0xA9" THEN "U+A9" ELSE b

RECURSIVE Pow10(_)
Pow10(k) == IF k <= 0 THEN 1 ELSE 10 * Pow10(k - 1)

\* the decimal digits of a natural number
RECURSIVE Itoa(_)
Itoa(n) ==
  IF n < 10 THEN << DigitRunes[n + 1] >>
  ELSE Itoa(n \div 10) \o << DigitRunes[(n % 10) + 1] >>

RECURSIVE StripZeros(_)
StripZeros(s) ==
  IF s # << >> /\ s[Len(s)] = "0" THEN StripZeros(SubSeq(s, 1, Len(s) - 1))
  ELSE s

\* strings.Join(parts, sep)
RECURSIVE Join(_, _)
Join(parts, sep) ==
  IF parts = << >> THEN << >>
  ELSE IF Len(parts) = 1 THEN parts[1]
  ELSE parts[1] \o sep \o Join(Tail(parts), sep)

\* strings.Split(s, sep) for a one-element separator: always at least one part
RECURSIVE SplitAcc(_, _, _)
SplitAcc(s, sep, cur) ==
  IF s = << >> THEN << cur >>
  ELSE IF Head(s) = sep THEN << cur >> \o SplitAcc(Tail(s), sep, << >>)
  ELSE SplitAcc(Tail(s), sep, Append(cur, Head(s)))

Split(s, sep) == SplitAcc(s, sep, << >>)

\* the elements of a sequence
Range(s) == { s[i] : i \in 1..Len(s) }

\* a set of strings as a sequence in Go's string order
RECURSIVE SortedStrs(_)
SortedStrs(S) ==
  IF S = {} THEN << >>
  ELSE LET m == CHOOSE x \in S : \A y \in S \ {x} : StrLess(x, y)
       IN  << m >> \o SortedStrs(S \ {m})

(***************************************************************************)
(* JSON text and Go values (encoding/json, fmt, strconv)                   *)
(*                                                                         *)
(* A JSON text is a tree [k, lit, mem]: k is its kind, lit the literal of  *)
(* a number or string, mem the members <<key, text>> of an object in the   *)
(* order written (an array's elements carry the empty key).  A Go value is *)
(* a record [t, n, s, m, l]: t is the dynamic type, n a float64 or bool,   *)
(* s a string, m a map, l a slice.  Numbers are naturals.                  *)
(***************************************************************************)

JNull == [k |-> "null", lit |-> << >>, mem |-> << >>]
JBad == [k |-> "bad", lit |-> << >>, mem |-> << >>]
JBool(b) == [k |-> IF b THEN "true" ELSE "false", lit |-> << >>, mem |-> << >>]
JNum(lit) == [k |-> "num", lit |-> lit, mem |-> << >>]
JStr(s) == [k |-> "str", lit |-> s, mem |-> << >>]
JObj(mem) == [k |-> "obj", lit |-> << >>, mem |-> mem]
JArr(el) ==
  [k |-> "arr", lit |-> << >>, mem |-> [i \in 1..Len(el) |-> << << >>, el[i] >>]]

GoNil == [t |-> "nil", n |-> 0, s |-> << >>, m |-> << >>, l |-> << >>]
GoNilMap == [t |-> "nilmap", n |-> 0, s |-> << >>, m |-> << >>, l |-> << >>]
GoBool(b) ==
  [t |-> "bool", n |-> IF b THEN 1 ELSE 0, s |-> << >>, m |-> << >>, l |-> << >>]
GoNum(n) == [t |-> "float64", n |-> n, s |-> << >>, m |-> << >>, l |-> << >>]
GoStr(s) == [t |-> "string", n |-> 0, s |-> s, m |-> << >>, l |-> << >>]
GoMap(m) == [t |-> "map", n |-> 0, s |-> << >>, m |-> m, l |-> << >>]
GoSlice(l) == [t |-> "slice", n |-> 0, s |-> << >>, m |-> << >>, l |-> l]

RECURSIVE Atoi(_)
Atoi(lit) ==
  IF lit = << >> THEN 0
  ELSE 10 * Atoi(SubSeq(lit, 1, Len(lit) - 1)) + DigitVal(lit[Len(lit)])

\* the keys of an object's members; the member the decoder keeps for a key is
\* the last one written
MemKeys(mem) == { mem[i][1] : i \in 1..Len(mem) }
LastMem(mem, key) ==
  mem[CHOOSE i \in 1..Len(mem) :
        mem[i][1] = key /\ \A j \in (i + 1)..Len(mem) : mem[j][1] # key][2]

\* a JSON text decoded into an `any`
RECURSIVE ToGo(_)
ToGo(j) ==
  CASE j.k = "null" -> GoNil
    [] j.k = "true" -> GoBool(TRUE)
    [] j.k = "false" -> GoBool(FALSE)
    [] j.k = "num" -> GoNum(Atoi(j.lit))
    [] j.k = "str" -> GoStr(j.lit)
    [] j.k = "obj" -> GoMap([key \in MemKeys(j.mem) |-> ToGo(LastMem(j.mem, key))])
    [] OTHER -> GoSlice([i \in 1..Len(j.mem) |-> ToGo(j.mem[i][2])])

\* json.Unmarshal(bytes, &document) with document a map[string]any
Unmarshal(j) ==
  CASE j.k = "null" -> [err |-> FALSE, doc |-> GoNilMap]
    [] j.k = "obj" -> [err |-> FALSE, doc |-> ToGo(j)]
    [] OTHER -> [err |-> TRUE, doc |-> GoNilMap]

\* json.NewDecoder(r.Body).Decode(&document)
Decode(body) == Unmarshal(body)

\* json.Marshal: object keys sorted, numbers as decimal literals
RECURSIVE Marshal(_)
Marshal(v) ==
  CASE v.t \in {"nil", "nilmap"} -> JNull
    [] v.t = "bool" -> JBool(v.n = 1)
    [] v.t = "float64" -> JNum(Itoa(v.n))
    [] v.t = "string" -> JStr(v.s)
    [] v.t = "map" ->
         LET ks == SortedStrs(DOMAIN v.m)
         IN  JObj([i \in 1..Len(ks) |-> << ks[i], Marshal(v.m[ks[i]]) >>])
    [] OTHER -> JArr([i \in 1..Len(v.l) |-> Marshal(v.l[i])])

\* %v of a float64 holding the natural n: %g with the shortest digits, which
\* switches to the exponent form from 1e+06 on
FormatFloat(n) ==
  LET ds == Itoa(n)
      ex == Len(ds) - 1
      frac == StripZeros(Tail(ds))
  IN  IF ex < 6 THEN ds
      ELSE << Head(ds) >> \o (IF frac = << >> THEN << >> ELSE << "." >> \o frac)
           \o << "e", "+" >> \o (IF ex < 10 THEN << "0" >> ELSE << >>) \o Itoa(ex)

\* fmt.Sprintf("%v", value)
RECURSIVE FormatV(_)
FormatV(v) ==
  CASE v.t = "nil" -> << "<", "n", "i", "l", ">" >>
    [] v.t = "bool" ->
         IF v.n = 1 THEN << "t", "r", "u", "e" >> ELSE << "f", "a", "l", "s", "e" >>
    [] v.t = "float64" -> FormatFloat(v.n)
    [] v.t = "string" -> v.s
    [] v.t \in {"map", "nilmap"} ->
         LET ks == SortedStrs(DOMAIN v.m)
         IN  << "m", "a", "p", "[" >>
             \o Join([i \in 1..Len(ks) |-> ks[i] \o << ":" >> \o FormatV(v.m[ks[i]])],
                     << " " >>)
             \o << "]" >>
    [] OTHER ->
         << "[" >> \o Join([i \in 1..Len(v.l) |-> FormatV(v.l[i])], << " " >>)
         \o << "]" >>

\* A float64 read by strconv.ParseFloat: m * 10^e, NaN or +Inf.
FNum(m, e) == [c |-> "fin", m |-> m, e |-> e]
FNaN == [c |-> "nan", m |-> 0, e |-> 0]
FInf == [c |-> "inf", m |-> 0, e |-> 0]

\* the longest prefix of digits
RECURSIVE DigitPrefix(_)
DigitPrefix(s) ==
  IF s # << >> /\ IsDigit(Head(s)) THEN << Head(s) >> \o DigitPrefix(Tail(s))
  ELSE << >>

Drop(s, k) == SubSeq(s, k + 1, Len(s))

\* strconv.ParseFloat(s, 64) on the strings of the model (no sign, no hex
\* mantissa, no underscore, lower-case exponent mark)
ParseFloat(s) ==
  LET ip == DigitPrefix(s)
      r1 == Drop(s, Len(ip))
      dot == r1 # << >> /\ Head(r1) = "."
      fp == IF dot THEN DigitPrefix(Tail(r1)) ELSE << >>
      r2 == IF dot THEN Drop(r1, 1 + Len(fp)) ELSE r1
      hasExp == r2 # << >> /\ Head(r2) = "e"
      xp == IF hasExp THEN DigitPrefix(Tail(r2)) ELSE << >>
      r3 == IF hasExp THEN Drop(r2, 1 + Len(xp)) ELSE r2
  IN  IF s = << "n", "a", "n" >> THEN [err |-> FALSE, f |-> FNaN]
      ELSE IF s = << "i", "n", "f" >> THEN [err |-> FALSE, f |-> FInf]
      ELSE IF Len(ip) + Len(fp) = 0 \/ (hasExp /\ xp = << >>) \/ r3 # << >>
        THEN [err |-> TRUE, f |-> FNum(0, 0)]
      ELSE [err |-> FALSE, f |-> FNum(Atoi(ip \o fp), Atoi(xp) - Len(fp))]

\* x < y and x <= y on float64 (every comparison with NaN is false)
Scaled(x, y) == x.m * Pow10(x.e - (IF x.e < y.e THEN x.e ELSE y.e))

FloatLess(x, y) ==
  IF x.c = "nan" \/ y.c = "nan" THEN FALSE
  ELSE IF x.c = "inf" THEN FALSE
  ELSE IF y.c = "inf" THEN TRUE
  ELSE Scaled(x, y) < Scaled(y, x)

FloatLeq(x, y) ==
  IF x.c = "nan" \/ y.c = "nan" THEN FALSE
  ELSE IF y.c = "inf" THEN TRUE
  ELSE IF x.c = "inf" THEN FALSE
  ELSE Scaled(x, y) <= Scaled(y, x)

(***************************************************************************)
(* Path flattener, path resolution and the match evaluator                 *)
(***************************************************************************)

\* getPathValues passing the whole path down as the prefix of a nested document
RECURSIVE getPathValuesFullPath(_, _, _)
getPathValuesFullPath(obj, prefix, ks) ==
  IF ks = << >> THEN << >>
  ELSE LET key == Head(ks)
           val == obj.m[key]
           path == IF prefix # << >> THEN prefix \o << "." >> \o key ELSE key
           rest == getPathValuesFullPath(obj, prefix, Tail(ks))
       IN  CASE val.t = "map" ->
                  getPathValuesFullPath(val, path, SortedStrs(DOMAIN val.m)) \o rest
             [] val.t = "slice" -> rest
             [] OTHER -> << path \o << "=" >> \o FormatV(val) >> \o rest

\* getPathValues over the keys ks of obj.  Go ranges over a map in an
\* unspecified order; the sequence here is in key order, and the indexer takes
\* its elements in any order.
RECURSIVE getPathValuesOf(_, _, _)
getPathValuesOf(obj, prefix, ks) ==
  IF ks = << >> THEN << >>
  ELSE LET key == Head(ks)
           val == obj.m[key]
           rest == getPathValuesOf(obj, prefix, Tail(ks))
       IN  CASE val.t = "map" ->
                  getPathValuesOf(val, key, SortedStrs(DOMAIN val.m)) \o rest
             [] val.t = "slice" -> rest
             [] OTHER ->
                  << (IF prefix # << >> THEN prefix \o << "." >> \o key ELSE key)
                     \o << "=" >> \o FormatV(val) >> \o rest

getPathValues(obj, prefix) == getPathValuesOf(obj, prefix, SortedStrs(DOMAIN obj.m))

\* getPath without the test that the key is in the map: a missing key reads
\* as nil and is found
RECURSIVE getPathNoOkCheck(_, _)
getPathNoOkCheck(docSegment, parts) ==
  IF parts = << >> THEN [ok |-> TRUE, value |-> docSegment]
  ELSE IF docSegment.t \notin {"map", "nilmap"} THEN [ok |-> FALSE, value |-> GoNil]
  ELSE IF Head(parts) \notin DOMAIN docSegment.m
    THEN getPathNoOkCheck(GoNil, Tail(parts))
  ELSE getPathNoOkCheck(docSegment.m[Head(parts)], Tail(parts))

RECURSIVE getPath(_, _)
getPath(docSegment, parts) ==
  IF parts = << >> THEN [ok |-> TRUE, value |-> docSegment]
  ELSE IF docSegment.t \notin {"map", "nilmap"} THEN [ok |-> FALSE, value |-> GoNil]
  ELSE IF Head(parts) \notin DOMAIN docSegment.m THEN [ok |-> FALSE, value |-> GoNil]
  ELSE getPath(docSegment.m[Head(parts)], Tail(parts))

\* one pass of the loop of query.match: does the argument let the loop go on
matchArgument(argument, doc) ==
  LET got == getPath(doc, argument.key)
      value == got.value
      right == ParseFloat(argument.value)
      leftStr == ParseFloat(value.s)
      left == IF value.t = "float64" THEN FNum(value.n, 0) ELSE leftStr.f
  IN  IF ~got.ok THEN FALSE
      ELSE IF argument.op = << "=" >> THEN FormatV(value) = argument.value
      ELSE IF right.err THEN FALSE
      ELSE IF value.t \notin {"float64", "string"} THEN FALSE
      ELSE IF value.t = "string" /\ leftStr.err THEN FALSE
      ELSE IF argument.op = << ">" >> THEN ~FloatLeq(left, right.f)
      ELSE ~FloatLeq(right.f, left)

RECURSIVE matchAnds(_, _)
matchAnds(ands, doc) ==
  IF ands = << >> THEN TRUE
  ELSE IF ~matchArgument(Head(ands), doc) THEN FALSE
  ELSE matchAnds(Tail(ands), doc)

\* match with the empty query matching nothing
matchNonEmpty(q, doc) == q.ands # << >> /\ matchAnds(q.ands, doc)

match(q, doc) == matchAnds(q.ands, doc)

(***************************************************************************)
(* Lexer and parser of the query language.  Positions count from 0.        *)
(***************************************************************************)

\* input[index] for a 0-based index
At(input, index) == input[index + 1]

\* the first position from index on where input holds a rune that stops the
\* scan (Len(input) when none does)
RECURSIVE ScanQuoted(_, _)
ScanQuoted(input, index) ==
  IF index < Len(input) /\ At(input, index) # "\"" THEN ScanQuoted(input, index + 1)
  ELSE index

\* the unquoted scan stopping at a dot
RECURSIVE ScanBareNoDot(_, _)
ScanBareNoDot(input, index) ==
  IF index < Len(input) /\ (IsLetter(At(input, index)) \/ IsDigit(At(input, index)))
    THEN ScanBareNoDot(input, index + 1)
  ELSE index

RECURSIVE ScanBare(_, _)
ScanBare(input, index) ==
  IF index < Len(input)
     /\ (IsLetter(At(input, index)) \/ IsDigit(At(input, index)) \/ At(input, index) = ".")
    THEN ScanBare(input, index + 1)
  ELSE index

lexString(input, index) ==
  IF index >= Len(input) THEN [s |-> << >>, index |-> index, err |-> ""]
  ELSE IF At(input, index) = "\""
    THEN LET end == ScanQuoted(input, index + 1)
         IN  IF end >= Len(input)
               THEN [s |-> << >>, index |-> end, err |-> "Expected end of quoted string"]
             ELSE [s |-> SubSeq(input, index + 2, end), index |-> end + 1, err |-> ""]
  ELSE LET end == ScanBare(input, index)
       IN  IF end = index THEN [s |-> << >>, index |-> index, err |-> "No string found"]
           ELSE [s |-> SubSeq(input, index + 1, end), index |-> end, err |-> ""]

\* The outcomes of parseQuery: a query, an error value, or a run-time panic
\* (an index past the end of the string or of the rune slice).  An error holds
\* the suffix of q it prints and, for a missing colon, the position (else -1).
ParseOk(ands) == [kind |-> "ok", ands |-> ands, msg |-> "", pos |-> 0, rest |-> << >>]
ParseErr(msg, pos, rest) ==
  [kind |-> "err", ands |-> << >>, msg |-> msg, pos |-> pos, rest |-> rest]
ParsePanic == [kind |-> "panic", ands |-> << >>, msg |-> "", pos |-> 0, rest |-> << >>]

\* for unicode.IsSpace(qRune[i]) { i++ }: the position it stops at, or
\* Len(qRune) when it runs off the end
RECURSIVE EatSpace(_, _)
EatSpace(qRune, i) ==
  IF i < Len(qRune) /\ IsSpace(At(qRune, i)) THEN EatSpace(qRune, i + 1) ELSE i

queryComparison(key, value, op) == [key |-> key, value |-> value, op |-> op]

\* the loop of parseQuery from position i with the arguments parsed so far;
\* q is indexed by byte, qRune by rune
RECURSIVE parseLoop(_, _, _)
parseLoop(qRune, i, ands) ==
  LET q == Bytes(qRune)
      i1 == EatSpace(qRune, i)
      k == lexString(qRune, i1)
      i2 == k.index + 1
      hasOp == At(q, i2) = ">" \/ At(q, i2) = "<"
      i3 == IF hasOp THEN i2 + 1 ELSE i2
      op == IF hasOp THEN << ByteToRune(At(q, i3)) >> ELSE << "=" >>
      v == lexString(qRune, i3)
  IN  IF i >= Len(qRune) THEN ParseOk(ands)
      ELSE IF i1 >= Len(qRune) THEN ParsePanic
      ELSE IF k.err # "" THEN ParseErr("Expected valid key", -1, Drop(q, k.index))
      ELSE IF k.index >= Len(q) THEN ParsePanic
      ELSE IF At(q, k.index) # ":"
        THEN ParseErr("Expected colon", k.index, Drop(q, k.index))
      ELSE IF i2 >= Len(q) THEN ParsePanic
      ELSE IF hasOp /\ i3 >= Len(q) THEN ParsePanic
      ELSE IF v.err # "" THEN ParseErr("Expected valid value", -1, Drop(q, v.index))
      ELSE parseLoop(qRune, v.index,
                     Append(ands, queryComparison(Split(k.s, "."), v.s, op)))

parseQuery(q) == IF q = << >> THEN ParseOk(<< >>) ELSE parseLoop(q, 0, << >>)

(***************************************************************************)
(* The two stores (pebble), the indexer and the lookup                     *)
(*                                                                         *)
(* db maps a document id to the JSON text stored under it; indexDb maps a  *)
(* path=value string to the comma-joined ids stored under it.  A UUID is   *)
(* one rune of the model ("id1"), so an id is a string of length one.      *)
(***************************************************************************)

\* bounds of the model
MaxDocs == 2
MaxReads == 1
NumWorkers == 2

Workers == 1..NumWorkers

\* an id generator that gives every document the same id
uuidNewRepeated(k) == << "id1" >>

\* uuid.New().String() for the k-th id generated
uuidNew(k) == << "id" \o ToString(k) >>

\* s.indexDb.Get: the value stored under pathValue, empty when there is none
indexDbGet(ix, pathValue) == IF pathValue \in DOMAIN ix THEN ix[pathValue] ELSE << >>

\* a store after Set(key, value)
Put(store, key, value) ==
  [x \in DOMAIN store \cup {key} |-> IF x = key THEN value ELSE store[x]]

\* index() overwriting the posting list instead of appending to it
indexIdsOverwrite(idsString, id) == id

\* index() appending without the test for an empty posting list
indexIdsAlwaysAppend(idsString, id) == idsString \o << "," >> \o id

\* index() appending to a posting list without looking for the id in it
indexIdsNoDedup(idsString, id) ==
  IF Len(idsString) = 0 THEN id ELSE idsString \o << "," >> \o id

\* the bytes index() writes back for a posting list it read as idsString
indexIds(idsString, id) ==
  IF Len(idsString) = 0 THEN id
  ELSE IF \E i \in 1..Len(Split(idsString, ",")) : Split(idsString, ",")[i] = id
    THEN idsString
  ELSE idsString \o << "," >> \o id

\* server.index run from start to end with nothing in between
RECURSIVE indexPathValues(_, _, _)
indexPathValues(ix, id, pv) ==
  IF pv = << >> THEN ix
  ELSE indexPathValues(Put(ix, Head(pv), indexIds(indexDbGet(ix, Head(pv)), id)),
                       id, Tail(pv))

index(ix, id, document) == indexPathValues(ix, id, getPathValues(document, << >>))

lookup(ix, pathValue) ==
  IF Len(indexDbGet(ix, pathValue)) = 0 THEN << >>
  ELSE Split(indexDbGet(ix, pathValue), ",")

\* getDocumentById taking a stored null for a missing document
getDocumentByIdNoNull(store, id) ==
  IF id \notin DOMAIN store \/ store[id].k = "null"
    THEN [err |-> "pebble: not found", doc |-> GoNilMap]
  ELSE [err |-> "", doc |-> Unmarshal(store[id]).doc]

getDocumentById(store, id) ==
  IF id \notin DOMAIN store THEN [err |-> "pebble: not found", doc |-> GoNilMap]
  ELSE [err |-> IF Unmarshal(store[id]).err THEN "json: cannot unmarshal" ELSE "",
        doc |-> Unmarshal(store[id]).doc]

\* the keys of a store as a sequence, in the order an iterator (or ReadDir)
\* walks them: the order of the ids, which are random
RECURSIVE KeySeq(_)
KeySeq(S) ==
  IF S = {} THEN << >>
  ELSE LET x == CHOOSE x \in S : TRUE IN << x >> \o KeySeq(S \ {x})

\* the fingerprint searchDocuments looks up for an equality argument
argumentPathValue(argument) ==
  Join(argument.key, << "." >>) \o << "=" >> \o argument.value

\* idsArgumentCount after the ids of one lookup are counted
RECURSIVE countIds(_, _)
countIds(counts, ids) ==
  IF ids = << >> THEN counts
  ELSE countIds(Put(counts, Head(ids),
                    (IF Head(ids) \in DOMAIN counts THEN counts[Head(ids)] ELSE 0) + 1),
                Tail(ids))

\* the linear scan of searchDocuments over the documents an iterator sees
RECURSIVE scanDocuments(_, _, _)
scanDocuments(store, q, keys) ==
  IF keys = << >> THEN [err |-> "", documents |-> << >>]
  ELSE LET d == getDocumentById(store, Head(keys))
           rest == scanDocuments(store, q, Tail(keys))
       IN  IF d.err # "" THEN [err |-> d.err, documents |-> << >>]
           ELSE IF rest.err # "" THEN rest
           ELSE [err |-> "",
                 documents |-> (IF match(q, d.doc)
                                  THEN << [id |-> Head(keys), body |-> d.doc] >>
                                ELSE << >>) \o rest.documents]

(***************************************************************************)
(* Requests                                                                *)
(***************************************************************************)

Kevin == << "K", "e", "v", "i", "n" >>
name == << "n", "a", "m", "e" >>
age == << "a", "g", "e" >>

\* the request bodies of POST /docs
BodyKevin == JObj(<< << name, JStr(Kevin) >>, << age, JStr(<< "4", "5" >>) >> >>)
BodyAB == JObj(<< << << "a" >>, JObj(<< << << "b" >>, JNum(<< "1" >>) >> >>) >> >>)
BodyABC ==
  JObj(<< << << "a" >>,
             JObj(<< << << "b" >>, JObj(<< << << "c" >>, JNum(<< "1" >>) >> >>) >> >>) >> >>)
BodyAge50 == JObj(<< << age, JNum(<< "5", "0" >>) >> >>)
BodyAge60 == JObj(<< << age, JNum(<< "6", "0" >>) >> >>)
BodyMixed ==
  JObj(<< << age, JBool(TRUE) >>, << << "k" >>, JArr(<< JNum(<< "1" >>) >>) >>,
          << << "v" >>, JNull >> >>)
BodyTwice == JObj(<< << << "a" >>, JNum(<< "1" >>) >>, << << "a" >>, JNum(<< "2" >>) >> >>)
BodyArray == JArr(<< JNum(<< "1" >>) >>)

Bodies ==
  { BodyKevin, BodyAB, BodyABC, BodyAge50, BodyAge60, BodyMixed, BodyTwice, JNull,
    BodyArray, JBad }

ConcBodies == { BodyAB, BodyAge50 }

\* the q parameters of GET /docs
QEmpty == << >>
QName == name \o << ":", "\"" >> \o Kevin \o << "\"" >>
QAgeLess == age \o << ":", "<", "5", "0" >>
QAgeGreater == age \o << ":", ">", "5", "0" >>
QAB1 == << "a", ".", "b", ":", "1" >>
QAB2 == << "a", ".", "b", ":", "2" >>
QBC1 == << "b", ".", "c", ":", "1" >>
QABC1 == << "a", ".", "b", ".", "c", ":", "1" >>
QNameAge == name \o << ":" >> \o Kevin \o << " " >> \o age \o << ":", "<", "5", "0" >>
QNoColon == << "a" >>

Queries ==
  { QEmpty, QName, QAgeLess, QAgeGreater, QAB1, QAB2, QBC1, QABC1, QNameAge,
    QNoColon }

ConcQueries == { QAB1 }

(***************************************************************************)
(* The server: every request runs on its own worker.  A worker is idle, or *)
(* at a step of addDocument ("index", "indexSet", "store"), of             *)
(* searchDocuments ("lookup", "load", "scan"), or has written its response *)
(* ("done").  A step ends at an operation on a store.                      *)
(***************************************************************************)

VARIABLES db, indexDb, ids, reads, pc, local, resp, posted, reindexed, input

vars == << db, indexDb, ids, reads, pc, local, resp, posted, reindexed, input >>

\* ids counts the ids generated and reads the searches and gets taken (the
\* model takes at most MaxDocs and MaxReads of them).  posted is what the clients hold: the body sent
\* with every POST answered ok, under the id of the answer.  reindexed tells
\* whether reindex has run with no document added since ("no" when not), and
\* whether it left the index "unchanged" or "restored" entries.  input is the
\* string given to the parser on its own.

EmptyStore == << >>

\* the local variables of a handler; failed is what index() logs: the path
\* values whose Get or Set failed, each with the value stored under it then
NoLocal ==
  [ handler |-> "", id |-> << >>, body |-> JNull, document |-> GoNilMap,
    pv |-> << >>, pathValue |-> << >>, qs |-> << >>,
    idsString |-> << >>, q |-> << >>, ands |-> << >>, skipIndex |-> FALSE,
    isRange |-> FALSE, idsArgumentCount |-> << >>, nonRangeArguments |-> 0,
    idsInAll |-> {}, documents |-> << >>, failed |-> << >> ]

\* jsonResponse: the status, the body's fields and the error
NoResp ==
  [ status |-> "", id |-> << >>, document |-> GoNilMap, documents |-> << >>,
    count |-> 0, error |-> "" ]
RespError(e) == [NoResp EXCEPT !.status = "error", !.error = e]
\* a panic in the handler: net/http closes the connection without a response
RespPanic == [NoResp EXCEPT !.status = "panic"]

\* the result of a parse, kept for the parser's own properties
NoInput == [q |-> << >>, parsed |-> ParseOk(<< >>), done |-> FALSE]

Init ==
  /\ db = EmptyStore
  /\ indexDb = EmptyStore
  /\ ids = 0
  /\ reads = 0
  /\ pc = [w \in Workers |-> "idle"]
  /\ local = [w \in Workers |-> NoLocal]
  /\ resp = [w \in Workers |-> NoResp]
  /\ posted = EmptyStore
  /\ reindexed = "no"
  /\ input = NoInput

Remove(seq, i) == SubSeq(seq, 1, i - 1) \o SubSeq(seq, i + 1, Len(seq))

\* addDocument up to the call of s.index: decode the body, draw the id
addDocument(w, body) ==
  /\ pc[w] = "idle"
  /\ ids < MaxDocs
  /\ LET d == Decode(body)
     IN  IF d.err
           THEN /\ resp' = [resp EXCEPT ![w] = RespError("json: cannot decode")]
                /\ pc' = [pc EXCEPT ![w] = "done"]
                /\ UNCHANGED << ids, local >>
         ELSE /\ ids' = ids + 1
              /\ local' = [local EXCEPT ![w] =
                             [NoLocal EXCEPT !.handler = "addDocument",
                                             !.id = uuidNew(ids + 1), !.body = body,
                                             !.document = d.doc,
                                             !.pv = getPathValues(d.doc, << >>)]]
              /\ pc' = [pc EXCEPT ![w] =
                          IF getPathValues(d.doc, << >>) = << >> THEN "store" ELSE "index"]
              /\ UNCHANGED resp
  /\ UNCHANGED << db, indexDb, reads, posted, input >>
  /\ reindexed' = IF Decode(body).err THEN reindexed ELSE "no"

\* server.index: read the posting list of one of the path values left
indexGet(w) ==
  /\ pc[w] = "index"
  /\ \E i \in 1..Len(local[w].pv) :
       local' = [local EXCEPT ![w].pathValue = local[w].pv[i],
                              ![w].idsString = indexDbGet(indexDb, local[w].pv[i]),
                              ![w].pv = Remove(local[w].pv, i)]
  /\ pc' = [pc EXCEPT ![w] = "indexSet"]
  /\ UNCHANGED << db, indexDb, ids, reads, resp, posted, reindexed, input >>

\* server.index: write the posting list back
indexSet(w) ==
  /\ pc[w] = "indexSet"
  /\ indexDb' = Put(indexDb, local[w].pathValue, indexIds(local[w].idsString, local[w].id))
  /\ pc' = [pc EXCEPT ![w] = IF local[w].pv = << >> THEN "store" ELSE "index"]
  /\ UNCHANGED << db, ids, reads, local, resp, posted, reindexed, input >>

\* addDocument after s.index: marshal, write the document, answer with the id
addDocumentSet(w) ==
  /\ pc[w] = "store"
  /\ db' = Put(db, local[w].id, Marshal(local[w].document))
  /\ resp' = [resp EXCEPT ![w] = [NoResp EXCEPT !.status = "ok", !.id = local[w].id]]
  /\ posted' = Put(posted, local[w].id, local[w].body)
  /\ pc' = [pc EXCEPT ![w] = "done"]
  /\ UNCHANGED << indexDb, ids, reads, local, reindexed, input >>

\* the response of a search that found these documents
RespDocuments(documents) ==
  [NoResp EXCEPT !.status = "ok", !.documents = documents, !.count = Len(documents)]

\* one pass of the loop over q.ands: count the ids of an equality argument's
\* posting list, or note that the query has a range argument
countArgument(loc, ix) ==
  IF Head(loc.ands).op = << "=" >>
    THEN [loc EXCEPT
            !.ands = Tail(loc.ands),
            !.nonRangeArguments = @ + 1,
            !.idsArgumentCount =
              countIds(@, lookup(ix, argumentPathValue(Head(loc.ands))))]
  ELSE [loc EXCEPT !.ands = Tail(loc.ands), !.isRange = TRUE]

\* idsInAll once every argument is counted (nil when skipIndex is set)
idsInAllOf(loc) ==
  IF loc.skipIndex THEN {}
  ELSE { id \in DOMAIN loc.idsArgumentCount :
           loc.idsArgumentCount[id] = loc.nonRangeArguments }

\* one pass of the loop over idsInAll: load the document, keep it when the
\* query has no range argument or it matches
loadDocument(loc, store, id) ==
  LET d == getDocumentById(store, id)
  IN  [ err |-> d.err,
        loc |-> [loc EXCEPT
                   !.idsInAll = loc.idsInAll \ {id},
                   !.documents =
                     IF d.err = "" /\ (~loc.isRange \/ match([ands |-> loc.q], d.doc))
                       THEN Append(loc.documents, [id |-> id, body |-> d.doc])
                     ELSE loc.documents] ]

\* the else branch of searchDocuments: the linear scan, on the iterator's view
scanResponse(store, loc) ==
  LET scan == scanDocuments(store, [ands |-> loc.q], KeySeq(DOMAIN store))
  IN  IF scan.err # "" THEN RespError(scan.err) ELSE RespDocuments(scan.documents)

\* what searchDocuments does once every argument is counted: go on with the
\* ids found in the index, or answer from the linear scan
searchPlan(w, loc) ==
  IF idsInAllOf(loc) # {}
    THEN /\ local' = [local EXCEPT ![w] = [loc EXCEPT !.idsInAll = idsInAllOf(loc)]]
         /\ pc' = [pc EXCEPT ![w] = "load"]
         /\ UNCHANGED resp
  ELSE /\ local' = [local EXCEPT ![w] = loc]
       /\ pc' = [pc EXCEPT ![w] = "done"]
       /\ resp' = [resp EXCEPT ![w] = scanResponse(db, loc)]

\* the local variables of searchDocuments after a successful parse
searchLocal(qs, parsed, skipIndex) ==
  [NoLocal EXCEPT !.handler = "searchDocuments", !.qs = qs, !.q = parsed.ands,
                  !.ands = parsed.ands, !.skipIndex = skipIndex]

\* searchDocuments up to its first lookup: parse q
searchDocuments(w, q, skipIndex) ==
  /\ pc[w] = "idle"
  /\ reads < MaxReads
  /\ reads' = reads + 1
  /\ LET parsed == parseQuery(q)
         loc == searchLocal(q, parsed, skipIndex)
     IN  CASE parsed.kind = "panic" ->
                /\ resp' = [resp EXCEPT ![w] = RespPanic]
                /\ pc' = [pc EXCEPT ![w] = "done"]
                /\ local' = [local EXCEPT ![w] = [loc EXCEPT !.q = << >>, !.ands = << >>]]
           [] parsed.kind = "err" ->
                /\ resp' = [resp EXCEPT ![w] = RespError(parsed.msg)]
                /\ pc' = [pc EXCEPT ![w] = "done"]
                /\ local' = [local EXCEPT ![w] = [loc EXCEPT !.q = << >>, !.ands = << >>]]
           [] OTHER ->
                IF parsed.ands = << >> THEN searchPlan(w, loc)
                ELSE /\ local' = [local EXCEPT ![w] = loc]
                     /\ pc' = [pc EXCEPT ![w] = "lookup"]
                     /\ UNCHANGED resp
  /\ UNCHANGED << db, indexDb, ids, posted, reindexed, input >>

searchLookup(w) ==
  /\ pc[w] = "lookup"
  /\ LET loc == countArgument(local[w], indexDb)
     IN  IF loc.ands = << >> THEN searchPlan(w, loc)
         ELSE /\ local' = [local EXCEPT ![w] = loc]
              /\ UNCHANGED << pc, resp >>
  /\ UNCHANGED << db, indexDb, ids, reads, posted, reindexed, input >>

\* idsInAll is built by ranging over a map: its ids come in any order
searchLoad(w) ==
  /\ pc[w] = "load"
  /\ \E id \in local[w].idsInAll :
       LET r == loadDocument(local[w], db, id)
       IN  IF r.err # ""
             THEN /\ resp' = [resp EXCEPT ![w] = RespError(r.err)]
                  /\ pc' = [pc EXCEPT ![w] = "done"]
                  /\ UNCHANGED local
           ELSE /\ local' = [local EXCEPT ![w] = r.loc]
                /\ IF r.loc.idsInAll = {}
                     THEN /\ pc' = [pc EXCEPT ![w] = "done"]
                          /\ resp' = [resp EXCEPT ![w] = RespDocuments(r.loc.documents)]
                   ELSE UNCHANGED << pc, resp >>
  /\ UNCHANGED << db, indexDb, ids, reads, posted, reindexed, input >>

\* searchDocuments run from start to end with nothing in between
RECURSIVE countArguments(_, _)
countArguments(loc, ix) ==
  IF loc.ands = << >> THEN loc ELSE countArguments(countArgument(loc, ix), ix)

RECURSIVE loadDocuments(_, _, _)
loadDocuments(loc, store, idSeq) ==
  IF idSeq = << >> THEN RespDocuments(loc.documents)
  ELSE IF loadDocument(loc, store, Head(idSeq)).err # ""
    THEN RespError(loadDocument(loc, store, Head(idSeq)).err)
  ELSE loadDocuments(loadDocument(loc, store, Head(idSeq)).loc, store, Tail(idSeq))

searchResponse(store, ix, q, skipIndex) ==
  LET parsed == parseQuery(q)
      loc == countArguments(searchLocal(q, parsed, skipIndex), ix)
  IN  CASE parsed.kind = "panic" -> RespPanic
        [] parsed.kind = "err" -> RespError(parsed.msg)
        [] OTHER ->
             IF idsInAllOf(loc) # {}
               THEN loadDocuments(loc, store, KeySeq(idsInAllOf(loc)))
             ELSE scanResponse(store, loc)

\* the response of GET /docs/:id
getDocumentResponse(store, id) ==
  IF getDocumentById(store, id).err # "" THEN RespError(getDocumentById(store, id).err)
  ELSE [NoResp EXCEPT !.status = "ok", !.document = getDocumentById(store, id).doc]

getDocument(w, id) ==
  /\ pc[w] = "idle"
  /\ reads < MaxReads
  /\ reads' = reads + 1
  /\ resp' = [resp EXCEPT ![w] = getDocumentResponse(db, id)]
  /\ local' = [local EXCEPT ![w] = [NoLocal EXCEPT !.handler = "getDocument", !.id = id]]
  /\ pc' = [pc EXCEPT ![w] = "done"]
  /\ UNCHANGED << db, indexDb, ids, posted, reindexed, input >>

\* the handler returns and the worker takes the next request
handlerReturn(w) ==
  /\ pc[w] = "done"
  /\ pc' = [pc EXCEPT ![w] = "idle"]
  /\ local' = [local EXCEPT ![w] = NoLocal]
  /\ resp' = [resp EXCEPT ![w] = NoResp]
  /\ UNCHANGED << db, indexDb, ids, reads, posted, reindexed, input >>

\* the ids a client asks for: the ids generated so far and one never generated
GetIds == { uuidNew(k) : k \in 1..ids } \cup { << "id0" >> }

\* reindex stopping after the first document
reindexFirstFile(ix, store, files) ==
  IF files = << >> THEN ix
  ELSE index(ix, Head(files), getDocumentById(store, Head(files)).doc)

\* reindex, kept by the file-backed server (its call in main is commented
\* out), run while the server takes no request: index every stored document.
\* The file-backed index() is the index() above, statement for statement,
\* with a file per fingerprint in place of a key.
RECURSIVE reindexFiles(_, _, _)
reindexFiles(ix, store, files) ==
  IF files = << >> THEN ix
  ELSE IF getDocumentById(store, Head(files)).err # "" THEN ix
  ELSE reindexFiles(index(ix, Head(files), getDocumentById(store, Head(files)).doc),
                    store, Tail(files))

reindex ==
  /\ \A w \in Workers : pc[w] = "idle"
  /\ indexDb' = reindexFiles(indexDb, db, KeySeq(DOMAIN db))
  /\ reindexed' = IF indexDb' = indexDb THEN "unchanged" ELSE "restored"
  /\ UNCHANGED << db, ids, reads, pc, local, resp, posted, input >>

FirstIdle(w) == pc[w] = "idle" /\ \A v \in 1..(w - 1) : pc[v] # "idle"

\* Workers run in parallel.  A request goes to the first idle worker: which
\* worker serves it makes no difference to the handlers.
Next ==
  \/ \E w \in Workers, body \in ConcBodies : FirstIdle(w) /\ addDocument(w, body)
  \/ \E w \in Workers : indexGet(w)
  \/ \E w \in Workers : indexSet(w)
  \/ \E w \in Workers : addDocumentSet(w)
  \/ \E w \in Workers, q \in ConcQueries, skipIndex \in BOOLEAN :
       FirstIdle(w) /\ searchDocuments(w, q, skipIndex)
  \/ \E w \in Workers : searchLookup(w)
  \/ \E w \in Workers : searchLoad(w)
  \/ \E w \in Workers, id \in GetIds : FirstIdle(w) /\ getDocument(w, id)
  \/ \E w \in Workers : handlerReturn(w)
  \/ reindex

Spec == Init /\ [][Next]_vars

\* Requests served one at a time, each to completion, by one worker.
SeqNext ==
  \/ \E body \in Bodies : addDocument(1, body)
  \/ indexGet(1)
  \/ indexSet(1)
  \/ addDocumentSet(1)
  \/ \E q \in Queries, skipIndex \in BOOLEAN : searchDocuments(1, q, skipIndex)
  \/ searchLookup(1)
  \/ searchLoad(1)
  \/ \E id \in GetIds : getDocument(1, id)
  \/ handlerReturn(1)
  \/ reindex

SeqSpec == Init /\ [][SeqNext]_vars

(***************************************************************************)
(* Storage failures: a Get of the index other than not-found, a Set of the *)
(* index, a Set of the primary store                                       *)
(***************************************************************************)

\* server.index: the Get of a path value fails; the error is logged and
\* idsString is the nil slice Get returned
indexGetFail(w) ==
  /\ pc[w] = "index"
  /\ \E i \in 1..Len(local[w].pv) :
       local' = [local EXCEPT
                   ![w].pathValue = local[w].pv[i],
                   ![w].idsString = << >>,
                   ![w].pv = Remove(local[w].pv, i),
                   ![w].failed = Put(local[w].failed, local[w].pv[i],
                                     indexDbGet(indexDb, local[w].pv[i]))]
  /\ pc' = [pc EXCEPT ![w] = "indexSet"]
  /\ UNCHANGED << db, indexDb, ids, reads, resp, posted, reindexed, input >>

\* server.index giving up the insert at the first Set that fails
indexSetAbort(w) ==
  /\ pc[w] = "indexSet"
  /\ resp' = [resp EXCEPT ![w] = RespError("indexDb.Set failed")]
  /\ pc' = [pc EXCEPT ![w] = "done"]
  /\ UNCHANGED << db, indexDb, ids, reads, local, posted, reindexed, input >>

\* server.index: the Set of a path value fails; the error is logged and the
\* loop goes on
indexSetFail(w) ==
  /\ pc[w] = "indexSet"
  /\ local' = [local EXCEPT
                 ![w].failed = Put(local[w].failed, local[w].pathValue,
                                   indexDbGet(indexDb, local[w].pathValue))]
  /\ pc' = [pc EXCEPT ![w] = IF local[w].pv = << >> THEN "store" ELSE "index"]
  /\ UNCHANGED << db, indexDb, ids, reads, resp, posted, reindexed, input >>

\* addDocument: s.db.Set fails and the handler answers with its error
addDocumentSetFail(w) ==
  /\ pc[w] = "store"
  /\ resp' = [resp EXCEPT ![w] = RespError("db.Set failed")]
  /\ pc' = [pc EXCEPT ![w] = "done"]
  /\ UNCHANGED << db, indexDb, ids, reads, local, posted, reindexed, input >>

FailBodies == { BodyKevin, BodyAB, JBad }
FailQueries == { QEmpty, QAB1 }

\* Requests served one at a time over stores that may fail.
FailNext ==
  \/ \E body \in FailBodies : addDocument(1, body)
  \/ indexGet(1)
  \/ indexGetFail(1)
  \/ indexSet(1)
  \/ indexSetFail(1)
  \/ addDocumentSet(1)
  \/ addDocumentSetFail(1)
  \/ \E q \in FailQueries, skipIndex \in BOOLEAN : searchDocuments(1, q, skipIndex)
  \/ searchLookup(1)
  \/ searchLoad(1)
  \/ \E id \in GetIds : getDocument(1, id)
  \/ handlerReturn(1)
  \/ reindex

FailSpec == Init /\ [][FailNext]_vars

(***************************************************************************)
(* The parser on its own: every string of at most MaxQueryLen runes        *)
(***************************************************************************)

MaxQueryLen == 5

QueryRunes == { "a", ".", ":", "<", ">", " ", "\"", "U+E9" }

RECURSIVE StringsOf(_, _)
StringsOf(runes, n) ==
  IF n = 0 THEN { << >> }
  ELSE StringsOf(runes, n - 1)
       \cup { Append(s, c) : s \in StringsOf(runes, n - 1), c \in runes }

ParseInit ==
  /\ db = EmptyStore
  /\ indexDb = EmptyStore
  /\ ids = 0
  /\ reads = 0
  /\ pc = [w \in Workers |-> "idle"]
  /\ local = [w \in Workers |-> NoLocal]
  /\ resp = [w \in Workers |-> NoResp]
  /\ posted = EmptyStore
  /\ reindexed = "no"
  /\ input \in { [q |-> s, parsed |-> ParseOk(<< >>), done |-> FALSE] :
                   s \in StringsOf(QueryRunes, MaxQueryLen) }

parse ==
  /\ ~input.done
  /\ input' = [input EXCEPT !.parsed = parseQuery(input.q), !.done = TRUE]
  /\ UNCHANGED << db, indexDb, ids, reads, pc, local, resp, posted, reindexed >>

ParseNext == parse

ParseSpec == ParseInit /\ [][ParseNext]_vars

(***************************************************************************)
(* getPath and match on their own: every decoded body of the model with    *)
(* every key path of at most MaxPathLen keys                               *)
(***************************************************************************)

MaxPathLen == 3

PathKeys == { << "a" >>, << "b" >>, << "c" >>, << "k" >>, << "v" >> }

\* the values and operators of the predicates tried on a path
PathValues == { << "1" >>, << "2" >>, << "<", "n", "i", "l", ">" >>, << >> }
PathOps == { << "=" >>, << "<" >>, << ">" >> }

PathInit ==
  /\ db = EmptyStore
  /\ indexDb = EmptyStore
  /\ ids = 0
  /\ reads = 0
  /\ pc = [w \in Workers |-> "idle"]
  /\ local = [w \in Workers |-> NoLocal]
  /\ resp = [w \in Workers |-> NoResp]
  /\ posted = EmptyStore
  /\ reindexed = "no"
  /\ input \in { [doc |-> Decode(body).doc, parts |-> parts,
                  got |-> [ok |-> FALSE, value |-> GoNil], matched |-> {},
                  done |-> FALSE] :
                   body \in { b \in Bodies : ~Decode(b).err },
                   parts \in StringsOf(PathKeys, MaxPathLen) }

\* getPath(doc, parts), and the predicates on parts that match doc
resolve ==
  /\ ~input.done
  /\ input' = [input EXCEPT
                 !.got = getPath(input.doc, input.parts),
                 !.matched =
                   { << op, value >> \in PathOps \X PathValues :
                       match([ands |-> << queryComparison(input.parts, value, op) >>],
                             input.doc) },
                 !.done = TRUE]
  /\ UNCHANGED << db, indexDb, ids, reads, pc, local, resp, posted, reindexed >>

PathNext == resolve

PathSpec == PathInit /\ [][PathNext]_vars

(***************************************************************************)
(* lexString on its own: every string of at most MaxLexLen runes, from     *)
(* every start position up to one past its end                             *)
(***************************************************************************)

MaxLexLen == 4

LexRunes == { "a", "1", ".", ":", " ", "\"", "U+E9" }

LexInit ==
  /\ db = EmptyStore
  /\ indexDb = EmptyStore
  /\ ids = 0
  /\ reads = 0
  /\ pc = [w \in Workers |-> "idle"]
  /\ local = [w \in Workers |-> NoLocal]
  /\ resp = [w \in Workers |-> NoResp]
  /\ posted = EmptyStore
  /\ reindexed = "no"
  /\ input \in { [s |-> s, index |-> from,
                  out |-> [s |-> << >>, index |-> 0, err |-> ""], done |-> FALSE] :
                   s \in StringsOf(LexRunes, MaxLexLen), from \in 0..(MaxLexLen + 1) }
  /\ input.index <= Len(input.s) + 1

lex ==
  /\ ~input.done
  /\ input' = [input EXCEPT !.out = lexString(input.s, input.index), !.done = TRUE]
  /\ UNCHANGED << db, indexDb, ids, reads, pc, local, resp, posted, reindexed >>

LexNext == lex

LexSpec == LexInit /\ [][LexNext]_vars

(***************************************************************************)
(* Buffers and iterators.  A Get of pebble that finds the key lends a      *)
(* buffer and gives a closer; a Get that fails or finds nothing gives nil. *)
(* The trace of a handler is the sequence of its operations on the stores: *)
(* "Get+" (a buffer is lent), "Get-" (none is), "Close" (of a closer),     *)
(* "Set", "NewIter" and "IterClose".  What the stores answer is an input:  *)
(* "ok", "notfound" or "err" for a Get, "ok" or "err" for a Set, "ok" or   *)
(* "badjson" for the bytes read.                                           *)
(***************************************************************************)

MaxOps == 2

GetOutcomes == { "ok", "notfound", "err" }
LoadOutcomes == { "ok", "badjson", "notfound" }
IndexOutcomes == { [get |-> g, set |-> t] : g \in GetOutcomes, t \in { "ok", "err" } }

\* getDocumentById closing the buffer only after a successful Unmarshal
getDocumentByIdTraceNoDefer(outcome) ==
  IF outcome = "notfound" THEN [events |-> << "Get-" >>, err |-> TRUE]
  ELSE IF outcome = "badjson" THEN [events |-> << "Get+" >>, err |-> TRUE]
  ELSE [events |-> << "Get+", "Close" >>, err |-> FALSE]

\* getDocumentById: Get, return on its error, else defer closer.Close() and
\* Unmarshal
getDocumentByIdTrace(outcome) ==
  IF outcome = "notfound" THEN [events |-> << "Get-" >>, err |-> TRUE]
  ELSE [events |-> << "Get+", "Close" >>, err |-> outcome = "badjson"]

\* lookup: Get, return on an error other than not-found, defer closer.Close()
\* when there is a closer
lookupTrace(outcome) ==
  IF outcome = "ok" THEN [events |-> << "Get+", "Close" >>, err |-> FALSE]
  ELSE [events |-> << "Get-" >>, err |-> outcome = "err"]

\* index: for each path value Get, Close when there is a closer, Set
RECURSIVE indexTrace(_)
indexTrace(steps) ==
  IF steps = << >> THEN << >>
  ELSE (IF Head(steps).get = "ok" THEN << "Get+", "Close" >> ELSE << "Get-" >>)
       \o << "Set" >> \o indexTrace(Tail(steps))

\* the lookups of searchDocuments, one per equality argument, up to the first
\* that fails
RECURSIVE lookupsTrace(_)
lookupsTrace(lookups) ==
  IF lookups = << >> THEN [events |-> << >>, err |-> FALSE]
  ELSE IF lookupTrace(Head(lookups)).err
    THEN [events |-> lookupTrace(Head(lookups)).events, err |-> TRUE]
  ELSE [events |-> lookupTrace(Head(lookups)).events
                     \o lookupsTrace(Tail(lookups)).events,
        err |-> lookupsTrace(Tail(lookups)).err]

\* the loop over idsInAll, up to the first getDocumentById that fails
RECURSIVE loadsTrace(_)
loadsTrace(loads) ==
  IF loads = << >> THEN << >>
  ELSE IF getDocumentByIdTrace(Head(loads)).err
    THEN getDocumentByIdTrace(Head(loads)).events
  ELSE getDocumentByIdTrace(Head(loads)).events \o loadsTrace(Tail(loads))

\* searchDocuments: nothing on a parse error; the lookups; then the documents
\* of idsInAll (loads, none when skipIndex is set or no id is in all posting
\* lists) or the scan under an iterator closed by defer, on its error return
\* as well
searchDocumentsTrace(req) ==
  IF ~req.parseOk THEN << >>
  ELSE IF lookupsTrace(req.lookups).err THEN lookupsTrace(req.lookups).events
  ELSE IF ~req.skipIndex /\ req.loads # << >>
    THEN lookupsTrace(req.lookups).events \o loadsTrace(req.loads)
  ELSE lookupsTrace(req.lookups).events \o << "NewIter", "IterClose" >>

\* addDocument: nothing when the body does not decode; index, then s.db.Set
addDocumentTrace(req) ==
  IF ~req.parseOk THEN << >> ELSE indexTrace(req.steps) \o << "Set" >>

NoRequest ==
  [ handler |-> "", parseOk |-> TRUE, lookups |-> << >>, skipIndex |-> FALSE,
    loads |-> << >>, steps |-> << >>, events |-> << >>, done |-> FALSE ]

Requests ==
  { [NoRequest EXCEPT !.handler = "getDocument", !.loads = << o >>] : o \in LoadOutcomes }
  \cup { [NoRequest EXCEPT !.handler = "addDocument", !.parseOk = ok, !.steps = steps] :
           ok \in BOOLEAN, steps \in StringsOf(IndexOutcomes, MaxOps) }
  \cup { [NoRequest EXCEPT !.handler = "searchDocuments", !.parseOk = ok,
                           !.lookups = lookups, !.skipIndex = skipIndex,
                           !.loads = loads] :
           ok \in BOOLEAN, lookups \in StringsOf(GetOutcomes, MaxOps),
           skipIndex \in BOOLEAN, loads \in StringsOf(LoadOutcomes, MaxOps) }

TraceInit ==
  /\ db = EmptyStore
  /\ indexDb = EmptyStore
  /\ ids = 0
  /\ reads = 0
  /\ pc = [w \in Workers |-> "idle"]
  /\ local = [w \in Workers |-> NoLocal]
  /\ resp = [w \in Workers |-> NoResp]
  /\ posted = EmptyStore
  /\ reindexed = "no"
  /\ input \in Requests

\* the handler runs to its return
serve ==
  /\ ~input.done
  /\ input' = [input EXCEPT
                 !.events =
                   CASE input.handler = "getDocument" ->
                          getDocumentByIdTrace(input.loads[1]).events
                     [] input.handler = "addDocument" -> addDocumentTrace(input)
                     [] OTHER -> searchDocumentsTrace(input),
                 !.done = TRUE]
  /\ UNCHANGED << db, indexDb, ids, reads, pc, local, resp, posted, reindexed >>

TraceNext == serve

TraceSpec == TraceInit /\ [][TraceNext]_vars

(***************************************************************************)
(* Properties                                                              *)
(***************************************************************************)

\* the stored document of an id, the ids of a response's documents
document(id) == getDocumentById(db, id).doc
flatten(doc) == Range(getPathValues(doc, << >>))
DocIds(r) == { r.documents[i].id : i \in 1..Len(r.documents) }

Done(w, handler) == pc[w] = "done" /\ local[w].handler = handler
\* no insert is under way
NoInsert == \A w \in Workers : pc[w] \notin {"index", "indexSet", "store"}
AllIdle == \A w \in Workers : pc[w] = "idle"

OnlyEquality(ands) == \A i \in 1..Len(ands) : ands[i].op = << "=" >>

\* C1: a document posted with success is what GET /docs/<its id> returns, now
\* and after any later requests: the decoded body, unchanged by the store.
C1_RoundTrip ==
  /\ \A id \in DOMAIN posted :
       getDocumentResponse(db, id)
         = [NoResp EXCEPT !.status = "ok", !.document = Decode(posted[id]).doc]
  /\ \A w \in Workers :
       Done(w, "getDocument") /\ local[w].id \in DOMAIN posted
         => resp[w] = [NoResp EXCEPT !.status = "ok",
                                     !.document = Decode(posted[local[w].id]).doc]

\* the first document, posted with a key written twice, is fetched after a
\* second insert
C1_Witness ==
  \E w \in Workers :
    /\ Done(w, "getDocument")
    /\ local[w].id = uuidNew(1)
    /\ Cardinality(DOMAIN posted) = 2
    /\ posted[uuidNew(1)] = BodyTwice
    /\ resp[w].status = "ok"

\* C2: a search in index mode with a query of equality predicates only returns
\* exactly the ids of the stored documents the query matches.
C2_EqualitySearchSound ==
  \A w \in Workers :
    /\ Done(w, "searchDocuments")
    /\ ~local[w].skipIndex
    /\ parseQuery(local[w].qs).kind = "ok"
    /\ OnlyEquality(local[w].q)
    => /\ resp[w].status = "ok"
       /\ DocIds(resp[w])
            = { id \in DOMAIN db : match([ands |-> local[w].q], document(id)) }

\* C3: with no insert under way, a query with no range predicate gets the same
\* ids with skipIndex=true as with skipIndex=false.
C3_ScanIndexAgree ==
  NoInsert =>
    \A q \in Queries :
      parseQuery(q).kind = "ok" /\ OnlyEquality(parseQuery(q).ands)
        => DocIds(searchResponse(db, indexDb, q, TRUE))
             = DocIds(searchResponse(db, indexDb, q, FALSE))

\* C4: after inserts run one at a time to completion, id I is in lookup(F)
\* exactly when I is stored and F is a fingerprint of its document.
C4_IndexPrimaryConsistent ==
  NoInsert =>
    \A F \in DOMAIN indexDb \cup UNION { flatten(document(id)) : id \in DOMAIN db } :
      \A I \in DOMAIN db \cup UNION { Range(lookup(indexDb, G)) : G \in DOMAIN indexDb } :
        I \in Range(lookup(indexDb, F)) <=> (I \in DOMAIN db /\ F \in flatten(document(I)))

\* two stored documents share a fingerprint, whose posting list holds both ids
C4_Witness ==
  /\ AllIdle
  /\ Cardinality(DOMAIN db) = 2
  /\ \E F \in DOMAIN indexDb : Len(lookup(indexDb, F)) = 2

\* C5: no search answers with an error because a posting list names an id
\* whose document is not in the primary store.
C5_SearchFindsItsCandidates ==
  \A w \in Workers :
    ~(Done(w, "searchDocuments") /\ resp[w].status = "error"
      /\ resp[w].error = "pebble: not found")

\* C6: an insert that overlaps another may lose its entry in a posting list
\* (the witness); what the posting list of a fingerprint of a stored document
\* keeps, once the inserts are over, is at least one id, and only ids of stored
\* documents with that fingerprint.
C6_PostingListKeepsAWriter ==
  AllIdle =>
    \A id \in DOMAIN db :
      \A F \in flatten(document(id)) :
        /\ lookup(indexDb, F) # << >>
        /\ \A I \in Range(lookup(indexDb, F)) :
             I \in DOMAIN db /\ F \in flatten(document(I))

\* both documents are stored, they share F, and F's posting list has one id
C6_LostUpdate ==
  /\ AllIdle
  /\ \E I \in DOMAIN db, J \in DOMAIN db :
       /\ I # J
       /\ \E F \in flatten(document(I)) \cap flatten(document(J)) :
            lookup(indexDb, F) = << I >>

\* C7: once reindex has run with no writer beside it, every stored document is
\* in the posting list of each of its fingerprints.
C7_ReindexRestores ==
  reindexed # "no" =>
    \A id \in DOMAIN db :
      \A F \in flatten(document(id)) : id \in Range(lookup(indexDb, F))

\* reindex has put back entries that were missing
C7_Witness == reindexed = "restored" /\ Cardinality(DOMAIN db) = 2

\* the number at a path of a document: a float64, or a string that parses
NumericAt(doc, key) ==
  LET got == getPath(doc, key)
  IN  IF ~got.ok THEN [ok |-> FALSE, f |-> FNum(0, 0)]
      ELSE IF got.value.t = "float64" THEN [ok |-> TRUE, f |-> FNum(got.value.n, 0)]
      ELSE IF got.value.t = "string" /\ ~ParseFloat(got.value.s).err
        THEN [ok |-> TRUE, f |-> ParseFloat(got.value.s).f]
      ELSE [ok |-> FALSE, f |-> FNum(0, 0)]

\* C8: q=age:>50 returns exactly the documents whose age is a number or numeric
\* string above 50, q=age:<50 exactly those below 50, in both modes.
C8_RangeSearch ==
  \A w \in Workers :
    Done(w, "searchDocuments") /\ local[w].qs \in {QAgeGreater, QAgeLess}
      => /\ resp[w].status = "ok"
         /\ DocIds(resp[w])
              = { id \in DOMAIN db :
                    /\ NumericAt(document(id), << age >>).ok
                    /\ IF local[w].qs = QAgeGreater
                         THEN FloatLess(FNum(50, 0), NumericAt(document(id), << age >>).f)
                       ELSE FloatLess(NumericAt(document(id), << age >>).f, FNum(50, 0)) }

\* C9: a predicate written key:>value or key:<value parses to the operator
\* written and the atom after it, and every parsed predicate has an operator
\* among =, < and >.
C9_OperatorParsed ==
  input.done =>
    /\ input.parsed.kind = "ok"
         => \A i \in 1..Len(input.parsed.ands) :
              input.parsed.ands[i].op \in { << "=" >>, << "<" >>, << ">" >> }
    /\ \A o \in {"<", ">"} :
         \A v \in StringsOf({"a"}, 2) \ { << >> } :
           input.q = << "a", ":", o >> \o v
             => input.parsed = ParseOk(<< queryComparison(<< << "a" >> >>, v, << o >>) >>)

FirstKey(q) == lexString(q, EatSpace(q, 0))
StartsWithKey(q) == EatSpace(q, 0) < Len(q) /\ FirstKey(q).err = ""

\* C11: a key atom not followed by a colon, the input's end included, gives an
\* error value with the position and the rest of the input, and no input makes
\* parseQuery read at or past the end of its input.
C11_ParseErrorsAreValues ==
  input.done =>
    /\ input.parsed.kind # "panic"
    /\ StartsWithKey(input.q)
       /\ (FirstKey(input.q).index >= Len(input.q)
           \/ At(input.q, FirstKey(input.q).index) # ":")
         => input.parsed = ParseErr("Expected colon", FirstKey(input.q).index,
                                    Bytes(Drop(input.q, FirstKey(input.q).index)))

\* The query grammar, ( ws* predicate )* ws*, read from position i: the keys and
\* values of the predicates in input order, or that s is not of the grammar.
RECURSIVE GrammarFrom(_, _, _)
GrammarFrom(s, i, atoms) ==
  LET i1 == EatSpace(s, i)
      k == lexString(s, i1)
      i2 == k.index + 1
      i3 == IF i2 < Len(s) /\ At(s, i2) \in {"<", ">"} THEN i2 + 1 ELSE i2
      v == lexString(s, i3)
  IN  IF i1 >= Len(s) THEN [ok |-> TRUE, atoms |-> atoms]
      ELSE IF k.err # "" \/ k.index >= Len(s) THEN [ok |-> FALSE, atoms |-> << >>]
      ELSE IF At(s, k.index) # ":" \/ i3 >= Len(s) \/ v.err # ""
        THEN [ok |-> FALSE, atoms |-> << >>]
      ELSE GrammarFrom(s, v.index, Append(atoms, << Split(k.s, "."), v.s >>))

\* C12: every string of the query grammar parses to a query holding its
\* predicates (key path and value) in input order; trailing whitespace and
\* whitespace alone are of the grammar.
C12_GrammarAccepted ==
  input.done /\ GrammarFrom(input.q, 0, << >>).ok
    => /\ input.parsed.kind = "ok"
       /\ [i \in 1..Len(input.parsed.ands) |->
             << input.parsed.ands[i].key, input.parsed.ands[i].value >>]
            = GrammarFrom(input.q, 0, << >>).atoms

\* the path values of the document a worker is inserting
InsertPathValues(w) == Range(getPathValues(local[w].document, << >>))

\* C13: when index() is over, a path value whose Get or Set failed holds the
\* posting list it held before, and every other path value of the document
\* holds the document's id.
C13_IndexFailureSkips ==
  \A w \in Workers :
    pc[w] \in {"store", "done"} /\ local[w].handler = "addDocument"
      => \A F \in InsertPathValues(w) :
           IF F \in DOMAIN local[w].failed
             THEN indexDbGet(indexDb, F) = local[w].failed[F]
           ELSE local[w].id \in Range(lookup(indexDb, F))

\* C14: whichever Gets and Sets of the index fail, an insert of well-formed
\* JSON ends with the error of the primary store's Set, or with ok, the new id
\* and the document stored under it.
C14_IndexErrorsNeverFailInsert ==
  \A w \in Workers :
    Done(w, "addDocument")
      => \/ resp[w] = RespError("db.Set failed")
         \/ /\ resp[w] = [NoResp EXCEPT !.status = "ok", !.id = local[w].id]
            /\ getDocumentResponse(db, local[w].id)
                 = [NoResp EXCEPT !.status = "ok",
                                  !.document = Decode(local[w].body).doc]

\* an insert answered ok although a Get or a Set of the index failed
C14_Witness ==
  \E w \in Workers :
    /\ Done(w, "addDocument")
    /\ resp[w].status = "ok"
    /\ local[w].failed # << >>
    /\ local[w].id \in DOMAIN db

\* t is s with something appended, or s
Extends(t, s) == Len(s) <= Len(t) /\ SubSeq(t, 1, Len(s)) = s

\* C15: every step leaves each stored posting list extended or unchanged, so
\* no id leaves a posting list.
C15_PostingListsGrow ==
  [][\A F \in DOMAIN indexDb :
       F \in DOMAIN indexDb' /\ Extends(indexDb'[F], indexDb[F])]_vars

NoDuplicates(seq) == \A i \in 1..Len(seq), j \in 1..Len(seq) : seq[i] = seq[j] => i = j

\* C16: no posting list holds an id twice; on the index the handlers leave
\* behind, index(I, D) applied again changes nothing more, and so reindex.
C16_IndexIdempotent ==
  /\ \A F \in DOMAIN indexDb : NoDuplicates(lookup(indexDb, F))
  /\ AllIdle
       => /\ \A body \in Bodies, id \in GetIds :
               ~Decode(body).err
                 => index(index(indexDb, id, Decode(body).doc), id, Decode(body).doc)
                      = index(indexDb, id, Decode(body).doc)
          /\ reindexFiles(reindexFiles(indexDb, db, KeySeq(DOMAIN db)),
                          db, KeySeq(DOMAIN db))
               = reindexFiles(indexDb, db, KeySeq(DOMAIN db))

\* reindex has run over two documents whose ids share a posting list, and
\* left the index as it was
C16_Witness ==
  /\ reindexed = "unchanged"
  /\ \E F \in DOMAIN indexDb : Len(lookup(indexDb, F)) = 2

\* worker w takes the step and is in, or enters, a search or a get by id
ReadStep(w) ==
  /\ pc'[w] # pc[w] \/ local'[w] # local[w]
  /\ \/ local[w].handler \in {"searchDocuments", "getDocument"}
     \/ local'[w].handler \in {"searchDocuments", "getDocument"}

\* C17: every step keeps each stored document under its id as it is, and the
\* steps of a search or of a get by id change neither store.
C17_DocumentsImmutable ==
  [][/\ \A id \in DOMAIN db : id \in DOMAIN db' /\ db'[id] = db[id]
     /\ \A w \in Workers : ReadStep(w) => db' = db /\ indexDb' = indexDb]_vars

\* a search has run to completion over two stored documents, the second
\* inserted after the first
C17_Witness ==
  /\ Cardinality(DOMAIN db) = 2
  /\ \E id \in DOMAIN db, other \in DOMAIN db : db[id] # db[other]
  /\ \E w \in Workers : Done(w, "searchDocuments") /\ resp[w].status = "ok"

\* C18: a search in index mode with an equality predicate returns only ids that
\* the posting list of every equality predicate holds; none when no id is in
\* all of them.
C18_ResultsFromIntersection ==
  \A w \in Workers :
    /\ Done(w, "searchDocuments")
    /\ ~local[w].skipIndex
    /\ resp[w].status = "ok"
    /\ \E i \in 1..Len(local[w].q) : local[w].q[i].op = << "=" >>
    => \A id \in DocIds(resp[w]) :
         \A i \in 1..Len(local[w].q) :
           local[w].q[i].op = << "=" >>
             => id \in Range(lookup(indexDb, argumentPathValue(local[w].q[i])))

\* the scalars of a document reached through nested documents only, each with
\* its key path
RECURSIVE Leaves(_, _)
Leaves(obj, path) ==
  UNION { CASE obj.m[k].t = "map" -> Leaves(obj.m[k], Append(path, k))
            [] obj.m[k].t = "slice" -> {}
            [] OTHER -> { << Append(path, k), obj.m[k] >> }
          : k \in DOMAIN obj.m }

\* C19: for every scalar of a stored document, at any depth, the path value
\* the search looks up for the equality predicate on its path and its printed
\* value is one of the document's path values.
C19_PlannerFlattenerAgree ==
  \A id \in DOMAIN db :
    \A leaf \in Leaves(document(id), << >>) :
      argumentPathValue(queryComparison(leaf[1], FormatV(leaf[2]), << "=" >>))
        \in flatten(document(id))

\* a document with every nested document of it, each with the key it is under
RECURSIVE SubDocuments(_, _)
SubDocuments(obj, parent) ==
  { << obj, parent >> }
    \cup UNION { IF obj.m[k].t = "map" THEN SubDocuments(obj.m[k], k) ELSE {}
                 : k \in DOMAIN obj.m }

\* the path values the flattener owes for obj under the key parent: one per
\* scalar, prefixed with the key of the document that holds it
RECURSIVE PathValueSet(_, _)
PathValueSet(obj, parent) ==
  UNION { CASE obj.m[k].t = "map" -> PathValueSet(obj.m[k], k)
            [] obj.m[k].t = "slice" -> {}
            [] OTHER ->
                 { (IF parent # << >> THEN parent \o << "." >> \o k ELSE k)
                   \o << "=" >> \o FormatV(obj.m[k]) }
          : k \in DOMAIN obj.m }

\* the orders in which a range over keys may yield them
KeyOrders(S) ==
  { ks \in [1..Cardinality(S) -> S] : \A i, j \in 1..Cardinality(S) : ks[i] = ks[j] => i = j }

\* C20: whatever the order of the keys, getPathValues gives one path value per
\* scalar outside arrays, key=value at the top and parent.key=value below,
\* parent being the key of the enclosing document alone.
C20_FlattenerOutput ==
  \A id \in DOMAIN db :
    /\ Len(getPathValues(document(id), << >>))
         = Cardinality(Leaves(document(id), << >>))
    /\ \A sub \in SubDocuments(document(id), << >>) :
         \A ks \in KeyOrders(DOMAIN sub[1].m) :
           Range(getPathValuesOf(sub[1], sub[2], ks)) = PathValueSet(sub[1], sub[2])

\* stored: a document nested three deep, flattened under its last two keys,
\* and a document holding an array
C20_Witness ==
  /\ \E id \in DOMAIN db : flatten(document(id)) = { << "b", ".", "c", "=", "1" >> }
  /\ \E id \in DOMAIN db : \E k \in DOMAIN document(id).m : document(id).m[k].t = "slice"

\* The node of doc that the key path parts names, read from the last key back:
\* there is one when the path before the last key names a nested document that
\* holds the last key.
RECURSIVE NodeAt(_, _)
NodeAt(doc, parts) ==
  IF parts = << >> THEN [ok |-> TRUE, value |-> doc]
  ELSE LET parent == NodeAt(doc, SubSeq(parts, 1, Len(parts) - 1))
           key == parts[Len(parts)]
       IN  IF parent.ok /\ parent.value.t = "map" /\ key \in DOMAIN parent.value.m
             THEN [ok |-> TRUE, value |-> parent.value.m[key]]
           ELSE [ok |-> FALSE, value |-> GoNil]

\* C21: getPath finds the value at a key path exactly when every key is in the
\* nested document reached so far; a step into a scalar, an array or a missing
\* key gives nil and not found, and no predicate on such a path matches.
C21_PathResolution ==
  input.done =>
    /\ input.got = NodeAt(input.doc, input.parts)
    /\ ~input.got.ok => input.got.value = GoNil /\ input.matched = {}

\* resolved: a path whose second key steps into a number, and one into an array
C21_Witness ==
  /\ input.done
  /\ ~input.got.ok
  /\ Len(input.parts) = 2
  /\ input.parts[1] \in DOMAIN input.doc.m
  /\ input.doc.m[input.parts[1]].t \in {"float64", "slice"}

AtomRune(c) == IsLetter(c) \/ IsDigit(c) \/ c = "."

\* the positions after start where s holds a quote
QuotesAfter(s, start) == { j \in (start + 1)..(Len(s) - 1) : At(s, j) = "\"" }

\* where the run of atom runes that begins at start ends
RunEnd(s, start) ==
  CHOOSE e \in start..Len(s) :
    /\ \A j \in start..(e - 1) : AtomRune(At(s, j))
    /\ e = Len(s) \/ ~AtomRune(At(s, e))

\* C22: lexString gives the empty atom at a start past the end; after a quote
\* the runes up to the next quote and the position after it, or an error when
\* there is none; else the longest run of letters, digits and dots and the
\* position after it, or an error at start when the run is empty.  The position
\* it gives is never before start.
C22_LexerContract ==
  input.done =>
    LET s == input.s
        start == input.index
        out == input.out
    IN  /\ out.index >= start
        /\ IF start >= Len(s) THEN out = [s |-> << >>, index |-> start, err |-> ""]
           ELSE IF At(s, start) = "\""
             THEN IF QuotesAfter(s, start) = {}
                    THEN out.err = "Expected end of quoted string"
                  ELSE LET j == CHOOSE j \in QuotesAfter(s, start) :
                                  \A i \in QuotesAfter(s, start) : j <= i
                       IN  out = [s |-> SubSeq(s, start + 2, j), index |-> j + 1,
                                  err |-> ""]
           ELSE IF RunEnd(s, start) = start
             THEN out.err = "No string found" /\ out.index = start
           ELSE out = [s |-> SubSeq(s, start + 1, RunEnd(s, start)),
                       index |-> RunEnd(s, start), err |-> ""]

\* lexed from a position inside the input: a run that holds a dot and stops
\* before the end
C22_Witness ==
  /\ input.done
  /\ input.index > 0
  /\ input.out.err = ""
  /\ "." \in Range(input.out.s)
  /\ input.out.index < Len(input.s)

\* C23: a query k:v whose key is a bareword of non-ASCII letters parses to the
\* one predicate (split(k), "=", v): the parser looks for the colon at the
\* position the lexer gave.
C23_CursorConsistent ==
  input.done =>
    \A k \in StringsOf({"U+E9"}, 2) \ { << >> } :
      \A v \in StringsOf({"a"}, 2) \ { << >> } :
        input.q = k \o << ":" >> \o v
          => input.parsed = ParseOk(<< queryComparison(Split(k, "."), v, << "=" >>) >>)

\* C24: with no insert under way, failed inserts included among those over,
\* every id in a posting list is the id of a stored document, and no search in
\* index mode answers with an error.
C24_FailedInsertLeavesNoTrace ==
  NoInsert =>
    /\ \A F \in DOMAIN indexDb : Range(lookup(indexDb, F)) \subseteq DOMAIN db
    /\ \A q \in FailQueries : searchResponse(db, indexDb, q, FALSE).status # "error"

\* how many of the first n events are e
CountOf(events, e, n) == Cardinality({ i \in 1..n : events[i] = e })

\* the buffers lent and not yet released after the first n events
Lent(events, n) == CountOf(events, "Get+", n) - CountOf(events, "Close", n)

====
